---- MODULE Spec2Model ----
(***************************************************************************)
(* ClashStream server (src/server.js): the stream-URL cache `urlCache`,    *)
(* the two handlers that register entries in it (/search and /play) and    *)
(* the /proxy handler with the events of its upstream request.             *)
(*                                                                         *)
(* Each handler's synchronous code is one action.  Date.now() is read      *)
(* several times inside a handler; every reading is at least the one       *)
(* before it and may be one or more milliseconds later.  Math.random() and *)
(* the output of yt-dlp are inputs drawn from small sets.                  *)
(***************************************************************************)
EXTENDS Integers, Sequences, FiniteSets, TLC

VARIABLES
    clock,      \* the last value Date.now() returned, in ms
    urlCache,   \* the Map of line 19, in insertion order: <<[key, url, expires]>>
    issued,     \* history: every value urlCache.set stored, and by whom
    reqs        \* the /proxy requests: req, res and proxyReq of each

vars == <<clock, urlCache, issued, reqs>>

----------------------------------------------------------------------------
(* Bounds of the model *)

MaxRegs == 2
MaxReqs == 1
MaxChunks == 1
MaxHours == 1
MaxMs == 1
StartTime == 1000000

(* Program constants *)

TTL == 3600000
Radix == 36
RandomFrom == 2
RandomTo == 8

----------------------------------------------------------------------------
(* Strings and numbers of Number.prototype.toString(36) are sequences of   *)
(* digits 0..35.                                                           *)

Min(a, b) == IF a < b THEN a ELSE b

RECURSIVE ToBase36(_)
ToBase36(n) ==
    IF n < Radix THEN <<n>> ELSE Append(ToBase36(n \div Radix), n % Radix)

\* Math.random().toString(36) is "0." followed by the digits of the fraction
\* (or "0" alone when the fraction has no digit).  RandomString(f) is that
\* string for the fraction digits f; the characters "0" and "." are 0 and 99.
RandomString(f) == IF f = <<>> THEN <<0>> ELSE <<0, 99>> \o f

\* String.prototype.substring(from, to), indices from 0, `to` excluded.
Substring(s, from, to) ==
    IF from >= Len(s) THEN <<>> ELSE SubSeq(s, from + 1, Min(to, Len(s)))

\* line 73 / line 173
NewStreamId(now, f) ==
    ToBase36(now) \o Substring(RandomString(f), RandomFrom, RandomTo)

\* The fractions Math.random() returns here; the last two differ only in a
\* digit that substring(2, 8) cuts off.
RandomFractions ==
    { <<18>>, <<7, 3, 0, 9, 1, 4, 2>>, <<7, 3, 0, 9, 1, 4, 5>> }

----------------------------------------------------------------------------
(* yt-dlp *)

U1 == "https://a/1"
U2 == "http://b/2"

\* What the two runYtDlp calls of a handler give: the metadata step either
\* throws, or prints something JSON.parse rejects, or prints "null", or
\* prints an object; the audio step either throws or prints (trimmed) lines.
MetaResults == {"throw", "unparsable", "null", "object"}
AudioThrow == <<"throw">>
AudioResults == { AudioThrow, <<>>, <<U1, U2>> }

\* audioUrl.split('\n')[0]
FirstLine(out) == IF out = <<>> THEN "" ELSE Head(out)

----------------------------------------------------------------------------
(* The Map urlCache *)

CacheKeys(cache) == { cache[k].key : k \in 1..Len(cache) }

\* 0 when the key is absent
CacheIndex(cache, id) ==
    IF id \in CacheKeys(cache)
    THEN CHOOSE k \in 1..Len(cache) : cache[k].key = id
    ELSE 0

\* Map.prototype.set: a present key keeps its place, a new key goes last
CacheSet(cache, id, value) ==
    LET k == CacheIndex(cache, id)
        e == [key |-> id, url |-> value.url, expires |-> value.expires]
    IN  IF k = 0 THEN Append(cache, e) ELSE [cache EXCEPT ![k] = e]

\* A faulty variant of IsStale: an entry expiring at this very reading is
\* stale too
IsStaleAtExpiry(value, now) == value.expires <= now

\* line 81: the test of one iteration of the clean-up loop
IsStale(value, now) == value.expires < now

\* lines 80-84: the k-th entry visited is tested against the k-th reading
RECURSIVE CleanUp(_, _)
CleanUp(cache, reads) ==
    IF cache = <<>> THEN <<>>
    ELSE LET rest == CleanUp(Tail(cache), Tail(reads))
         IN  IF IsStale(Head(cache), Head(reads))
             THEN rest
             ELSE <<Head(cache)>> \o rest

----------------------------------------------------------------------------
(* The clock *)

Hours(c) == (c - StartTime) \div TTL
Ms(c) == (c - StartTime) % TTL

\* The readings of Date.now() made in a row by one handler, the first not
\* before `from`: n readings, none earlier than the one before it, each
\* within the modelled milliseconds.
Readings(from, n) ==
    { r \in [1..n -> from..(from + (MaxMs - Ms(from)))] :
        \A i \in 1..(n - 1) : r[i] <= r[i + 1] }

Tick ==
    /\ \E d \in {1, TTL} :
          /\ d = 1 => Ms(clock) < MaxMs
          /\ d = TTL => Hours(clock) < MaxHours
          /\ clock' = clock + d
    /\ UNCHANGED <<urlCache, issued, reqs>>

----------------------------------------------------------------------------
(* Registration: GET /search and GET /play/:videoId *)

NoId == <<>>

Queries == {"", "q"}

\* One record of the history: what urlCache.set stored, by which handler,
\* and whether the handler went on to answer 200 with the id (it answers
\* 500 otherwise).  The history is a set: two calls that store the same
\* value under the same id for the same handler are one record.
Issue(id, value, via, returned) ==
    [key |-> id, url |-> value.url, expires |-> value.expires,
     via |-> via, returned |-> returned]

\* lines 74-77 / 174-177: the value stored
NewValue(audio, now) == [url |-> FirstLine(audio), expires |-> now + TTL]

\* lines 72-84: the stored map after the set and the clean-up loop
SearchStore(cache, id, value, reads) == CleanUp(CacheSet(cache, id, value), reads)

\* lines 72-84 of /search, for the audio output `audio`
SearchRegister(audio) ==
    /\ Cardinality(issued) < MaxRegs
    /\ \E f \in RandomFractions, r \in Readings(clock, 2) :
          LET id == NewStreamId(r[1], f)
              value == NewValue(audio, r[2])
              n == Len(CacheSet(urlCache, id, value))
          IN  \E reads \in Readings(r[2], n) :
                  /\ urlCache' = SearchStore(urlCache, id, value, reads)
                  /\ clock' = reads[n]
                  /\ issued' = issued \cup {Issue(id, value, "search", TRUE)}
    /\ UNCHANGED reqs

\* lines 41-111.  A request that fails answers 400 or 500 from a line
\* before line 74 and leaves the server as it was.
Search ==
    \E query \in Queries :
        IF query = "" THEN UNCHANGED vars                        \* line 44: 400
        ELSE \E meta \in MetaResults :
            IF meta \in {"throw", "unparsable", "null"}
            THEN UNCHANGED vars                                  \* lines 53, 57, 59: 500
            ELSE \E audio \in AudioResults :
                IF audio = AudioThrow \/ audio = <<>>
                THEN UNCHANGED vars                              \* lines 64, 68: 500
                ELSE SearchRegister(audio)

\* lines 172-177: the stored map after the set
PlayStore(cache, id, value) == CacheSet(cache, id, value)

\* lines 172-195 of /play.  With metadata null, line 179 throws after the
\* entry is stored, and the catch block answers 500 instead of the id.
PlayRegister(meta, audio) ==
    /\ Cardinality(issued) < MaxRegs
    /\ \E f \in RandomFractions, r \in Readings(clock, 2) :
          LET id == NewStreamId(r[1], f)
              value == NewValue(audio, r[2])
          IN  /\ urlCache' = PlayStore(urlCache, id, value)
              /\ clock' = r[2]
              /\ issued' = issued \cup {Issue(id, value, "play", meta # "null")}
    /\ UNCHANGED reqs

\* lines 157-196.  A request that fails at line 164, 167 or 170 answers 500
\* and leaves the server as it was.
Play ==
    \E meta \in MetaResults :
        IF meta \in {"throw", "unparsable"}
        THEN UNCHANGED vars                                      \* lines 164, 167
        ELSE \E audio \in AudioResults :
            IF audio = AudioThrow
            THEN UNCHANGED vars                                  \* line 170
            ELSE PlayRegister(meta, audio)

----------------------------------------------------------------------------
(* GET /proxy/:streamId *)

NoHeader == "<absent>"
NotFoundBody == "{\"error\":\"Stream not found or expired\"}"
StreamFailedBody == "{\"error\":\"Stream failed\"}"
ProxyFailedBody == "{\"error\":\"Failed to proxy stream\"}"
NoBody == "<none>"

NoHeaders ==
    [ctype |-> NoHeader, clen |-> NoHeader, crange |-> NoHeader,
     accept |-> NoHeader, cache |-> NoHeader]

\* statusCode and headers of the upstream response; status 0: none received
NoProxyRes == [status |-> 0, ctype |-> NoHeader, clen |-> NoHeader, crange |-> NoHeader]

UpstreamReplies ==
    { [status |-> 200, ctype |-> "audio/mp4", clen |-> "500", crange |-> NoHeader],
      [status |-> 206, ctype |-> NoHeader, clen |-> "100",
       crange |-> "bytes 100-199/500"],
      [status |-> 403, ctype |-> "", clen |-> NoHeader, crange |-> NoHeader] }

RangeHeaders == {NoHeader, "bytes=100-199"}

\* An id no registration can produce, and one that a registration can
BogusId == <<0>>
GuessedId == NewStreamId(StartTime, <<18>>)

\* The ids clients ask for: any id handed out, and ids of their own making
ProxyIds == {e.key : e \in issued} \cup {BogusId, GuessedId}

\* A new request: Node's ServerResponse starts with statusCode 200
NewReq ==
    [streamId |-> NoId, handled |-> FALSE, audioUrl |-> "", range |-> NoHeader,
     upstream |-> "none", proxyRes |-> NoProxyRes,
     status |-> 200, headers |-> NoHeaders, body |-> NoBody,
     headersSent |-> FALSE, ended |-> FALSE, chunks |-> 0,
     closed |-> FALSE, errPending |-> FALSE, errored |-> FALSE]

\* res.status(s).json(b): the status line, the headers and the body are
\* written and the response is ended
Json(q, s, b) ==
    [q EXCEPT !.status = s, !.body = b, !.headersSent = TRUE, !.ended = TRUE]

\* JavaScript's truth of a header value: undefined and '' are false
Truthy(v) == v # NoHeader /\ v # ""

\* What http.get / https.get accept; anything else makes them throw
ValidUrl(u) == u \in {U1, U2}

\* lines 227-230: the test `!cached`
NotCached(cache, id) == CacheIndex(cache, id) = 0

\* lines 232-284, after the entry was found
ProxyStart(q, entry, rangeHdr) ==
    LET set == [q EXCEPT !.audioUrl = entry.url,
                         !.headers.ctype = "audio/webm",       \* line 237
                         !.headers.accept = "bytes",           \* line 238
                         !.headers.cache = "no-cache"]         \* line 239
    IN  IF ValidUrl(entry.url)
        THEN [set EXCEPT !.upstream = "open",                  \* line 245
                         !.range = IF Truthy(rangeHdr) THEN rangeHdr ELSE "bytes=0-"]
        ELSE Json(set, 500, ProxyFailedBody)                   \* lines 280-283

\* A faulty variant of ProxyRun: an absent id is answered like a failed proxy
ProxyRunNoNotFound(q, cache, id, rangeHdr) ==
    LET h == [q EXCEPT !.streamId = id, !.handled = TRUE]
    IN  IF NotCached(cache, id)
        THEN Json(h, 500, ProxyFailedBody)
        ELSE ProxyStart(h, cache[CacheIndex(cache, id)], rangeHdr)

\* lines 224-284: the handler's synchronous run on the request q
ProxyRun(q, cache, id, rangeHdr) ==
    LET h == [q EXCEPT !.streamId = id, !.handled = TRUE]
    IN  IF NotCached(cache, id)
        THEN Json(h, 404, NotFoundBody)                        \* line 229
        ELSE ProxyStart(h, cache[CacheIndex(cache, id)], rangeHdr)

\* A faulty variant of ProxyHandler: the look-up consumes the entry it finds
ProxyHandlerConsuming(r) ==
    /\ ~reqs[r].handled
    /\ \E id \in ProxyIds, rangeHdr \in RangeHeaders :
          /\ reqs' = [reqs EXCEPT ![r] = ProxyRun(reqs[r], urlCache, id, rangeHdr)]
          /\ urlCache' = SelectSeq(urlCache, LAMBDA e : e.key # id)
    /\ UNCHANGED <<clock, issued>>

\* lines 224-284: urlCache.get at line 227 is the handler's only use of the
\* registry
ProxyHandler(r) ==
    /\ ~reqs[r].handled
    /\ \E id \in ProxyIds, rangeHdr \in RangeHeaders :
          reqs' = [reqs EXCEPT ![r] = ProxyRun(reqs[r], urlCache, id, rangeHdr)]
    /\ UNCHANGED <<clock, urlCache, issued>>

\* lines 250-266: the callback of the upstream response
OnResponse(q, reply) ==
    [q EXCEPT !.proxyRes = reply,
              !.status = reply.status,
              !.headers.ctype = IF Truthy(reply.ctype) THEN reply.ctype ELSE @,
              !.headers.clen = IF Truthy(reply.clen) THEN reply.clen ELSE @,
              !.headers.crange = IF Truthy(reply.crange) THEN reply.crange ELSE @]

UpstreamResponse(r) ==
    /\ reqs[r].upstream = "open"
    /\ reqs[r].proxyRes = NoProxyRes
    /\ \E reply \in UpstreamReplies :
          reqs' = [reqs EXCEPT ![r] = OnResponse(reqs[r], reply)]
    /\ UNCHANGED <<clock, urlCache, issued>>

\* line 265, proxyRes.pipe(res): a chunk of the upstream body is written to
\* the client; the first write sends the status line and the headers
UpstreamData(r) ==
    /\ reqs[r].upstream = "open"
    /\ reqs[r].proxyRes # NoProxyRes
    /\ ~reqs[r].ended
    /\ reqs[r].chunks < MaxChunks
    /\ reqs' = [reqs EXCEPT ![r].chunks = @ + 1, ![r].headersSent = TRUE]
    /\ UNCHANGED <<clock, urlCache, issued>>

\* line 265: the upstream body ends and pipe ends the client response
UpstreamEnd(r) ==
    /\ reqs[r].upstream = "open"
    /\ reqs[r].proxyRes # NoProxyRes
    /\ ~reqs[r].ended
    /\ reqs' = [reqs EXCEPT ![r].upstream = "ended", ![r].headersSent = TRUE,
                            ![r].ended = TRUE]
    /\ UNCHANGED <<clock, urlCache, issued>>

\* A faulty variant of OnError: the listener without the test of
\* res.headersSent
OnErrorUnguarded(q) ==
    Json([q EXCEPT !.errored = TRUE, !.errPending = FALSE], 500, StreamFailedBody)

\* A faulty variant of OnError: the listener opens the upstream request anew
OnErrorRetry(q) ==
    [q EXCEPT !.errored = TRUE, !.errPending = FALSE, !.upstream = "open"]

\* lines 268-273: the 'error' listener of proxyReq
OnError(q) ==
    LET e == [q EXCEPT !.errored = TRUE, !.errPending = FALSE]
    IN  IF ~q.headersSent THEN Json(e, 500, StreamFailedBody) ELSE e

\* The upstream socket fails (refused, reset, timed out), before or after
\* the upstream response: Node emits 'error' on proxyReq
UpstreamFail(r) ==
    /\ reqs[r].upstream = "open"
    /\ reqs' = [reqs EXCEPT ![r] = OnError([reqs[r] EXCEPT !.upstream = "failed"])]
    /\ UNCHANGED <<clock, urlCache, issued>>

\* A faulty variant of Destroy: the request is left as it is
DestroyNothing(q) == q

\* line 277, proxyReq.destroy().  Destroying a request that has no response
\* yet makes Node emit 'error' (socket hang up) on it; after the response,
\* or on a finished request, no 'error' reaches proxyReq.
Destroy(q) ==
    IF q.upstream = "open"
    THEN [q EXCEPT !.upstream = "destroyed", !.errPending = (q.proxyRes = NoProxyRes)]
    ELSE q

\* A faulty variant of OnClose: the listener answers the request as failed
OnCloseAnswering(q) == Json(Destroy([q EXCEPT !.closed = TRUE]), 500, StreamFailedBody)

\* lines 275-278: the 'close' listener of req
OnClose(q) == Destroy([q EXCEPT !.closed = TRUE])

\* req emits 'close' once: when the client's connection closes or, the
\* response finished, when Node discards the request.  The listener exists
\* only if line 276 was reached.
ClientClose(r) ==
    /\ reqs[r].upstream # "none"
    /\ ~reqs[r].closed
    /\ reqs' = [reqs EXCEPT ![r] = OnClose(reqs[r])]
    /\ UNCHANGED <<clock, urlCache, issued>>

\* The 'error' event that follows a destroy made before the response
HangUp(r) ==
    /\ reqs[r].errPending
    /\ reqs' = [reqs EXCEPT ![r] = OnError(reqs[r])]
    /\ UNCHANGED <<clock, urlCache, issued>>

----------------------------------------------------------------------------

Init ==
    /\ clock = StartTime
    /\ urlCache = <<>>
    /\ issued = {}
    /\ reqs = [r \in 1..MaxReqs |-> NewReq]

\* The registry alone: the clock and the two registering handlers
RegistryNext ==
    \/ Tick
    \/ Search
    \/ Play

SpecRegistry == Init /\ [][RegistryNext]_vars

\* The registry and the look-up of the /proxy handler
LookupNext ==
    \/ Tick
    \/ Search
    \/ Play
    \/ \E r \in 1..MaxReqs : ProxyHandler(r)

SpecLookup == Init /\ [][LookupNext]_vars

\* The /proxy requests against a registry that /play filled once
ProxyNext ==
    \/ (issued = {} /\ Play)
    \/ \E r \in 1..MaxReqs : ProxyHandler(r)
    \/ \E r \in 1..MaxReqs : UpstreamResponse(r)
    \/ \E r \in 1..MaxReqs : UpstreamData(r)
    \/ \E r \in 1..MaxReqs : UpstreamEnd(r)
    \/ \E r \in 1..MaxReqs : UpstreamFail(r)
    \/ \E r \in 1..MaxReqs : ClientClose(r)
    \/ \E r \in 1..MaxReqs : HangUp(r)

SpecProxy == Init /\ [][ProxyNext]_vars

\* The whole server
Next ==
    \/ Tick
    \/ Search
    \/ Play
    \/ \E r \in 1..MaxReqs : ProxyHandler(r)
    \/ \E r \in 1..MaxReqs : UpstreamResponse(r)
    \/ \E r \in 1..MaxReqs : UpstreamData(r)
    \/ \E r \in 1..MaxReqs : UpstreamEnd(r)
    \/ \E r \in 1..MaxReqs : UpstreamFail(r)
    \/ \E r \in 1..MaxReqs : ClientClose(r)
    \/ \E r \in 1..MaxReqs : HangUp(r)

Spec == Init /\ [][Next]_vars

----------------------------------------------------------------------------
(* Properties *)

IssuedKeys == {e.key : e \in issued}

\* The step in which the handler of request r runs
Handles(r) == ~reqs[r].handled /\ reqs'[r].handled

\* What the client has of a response: status line, error body, end
Answer(q) == [status |-> q.status, body |-> q.body, ended |-> q.ended,
              sent |-> q.headersSent]

\* C1: a /proxy request for an id whose every registration has expired
\* (now >= expires) is answered 404 and opens no upstream request, swept or
\* not.  The code looks the id up without reading `expires`.
C1_ExpiredIsNotFound ==
    [][\A r \in 1..MaxReqs :
          ( /\ Handles(r)
            /\ reqs'[r].streamId \in IssuedKeys
            /\ \A e \in issued : e.key = reqs'[r].streamId => clock >= e.expires )
          => ( /\ reqs'[r].status = 404
               /\ reqs'[r].body = NotFoundBody
               /\ reqs'[r].upstream = "none" )]_vars

\* C2: a /proxy request for an id that a registration of the URL u returned,
\* handled before that registration expires, takes u from the registry and
\* opens the upstream request against it.
C2_RoundTrip ==
    [][\A r \in 1..MaxReqs : \A e \in issued :
          ( /\ Handles(r)
            /\ reqs'[r].streamId = e.key
            /\ e.returned
            /\ clock < e.expires )
          => ( /\ reqs'[r].audioUrl = e.url
               /\ reqs'[r].upstream = "open" )]_vars

\* C3: a /proxy request for an id that is not a key of the registry is
\* answered 404 with the not-found body and opens no upstream request, and
\* nothing acts on the request afterwards.
C3_AbsentIsNotFound ==
    [][\A r \in 1..MaxReqs :
          /\ ( Handles(r) /\ reqs'[r].streamId \notin CacheKeys(urlCache) )
             => ( /\ reqs'[r].status = 404
                  /\ reqs'[r].body = NotFoundBody
                  /\ reqs'[r].ended
                  /\ reqs'[r].upstream = "none" )
          /\ ( reqs[r].handled /\ reqs[r].body = NotFoundBody )
             => reqs'[r] = reqs[r]]_vars

C3_Witness ==
    \E r \in 1..MaxReqs :
        /\ reqs[r].handled
        /\ reqs[r].streamId = GuessedId
        /\ GuessedId \notin CacheKeys(urlCache)
        /\ urlCache # <<>>
        /\ reqs[r].status = 404
        /\ reqs[r].upstream = "none"

\* C4: in every state, the handler answers an id that was issued and has
\* expired exactly as it answers an id that was never issued.
C4_ExpiredLikeNeverIssued ==
    \A e \in issued : \A id \in {BogusId, GuessedId} \ IssuedKeys :
        (\A x \in issued : x.key = e.key => clock >= x.expires)
        => Answer(ProxyRun(NewReq, urlCache, e.key, NoHeader))
             = Answer(ProxyRun(NewReq, urlCache, id, NoHeader))

\* C5: no two registrations are given the same id.
C5_IdsNeverRepeat ==
    [][\A n \in issued' \ issued :
          /\ n.key \notin IssuedKeys
          /\ n.key \notin CacheKeys(urlCache)]_vars

\* C6: when a registration (of /search or of /play) has run, the registry
\* holds no entry that had expired when the registration read the clock.
C6_RegistrationPurges ==
    [][\A n \in issued' \ issued : \A k \in 1..Len(urlCache') :
          ~(urlCache'[k].expires < n.expires - TTL)]_vars

\* C7: the clean-up loop of /search deletes every entry whose expiry is
\* before the loop's first reading of the clock, and leaves in place every
\* entry whose expiry is not before its last reading (as it was, unless the
\* registration stored a value under the same id); no step deletes any other
\* entry; a look-up of a deleted key finds nothing.
C7_SweepEvicts ==
    [][/\ \A n \in issued' \ issued : n.via = "search" =>
             \A k \in 1..Len(urlCache') :
                 ~(urlCache'[k].expires < n.expires - TTL)
       /\ \A k \in 1..Len(urlCache) :
             LET e == urlCache[k]
                 j == CacheIndex(urlCache', e.key)
             IN  /\ j = 0 => ( e.expires < clock' /\ NotCached(urlCache', e.key) )
                 /\ e.expires >= clock' =>
                       /\ j # 0
                       /\ \/ urlCache'[j] = e
                          \/ \E x \in issued' :
                                /\ x.key = e.key
                                /\ x.url = urlCache'[j].url
                                /\ x.expires = urlCache'[j].expires]_vars

C7_Witness ==
    /\ \E e \in issued : e.key \notin CacheKeys(urlCache) /\ e.expires < clock
    /\ \E k \in 1..Len(urlCache) : urlCache[k].expires >= clock
    /\ Len(urlCache) = 1

\* C8: the step that handles the client's close destroys the upstream
\* request, and once the close is handled no chunk is forwarded: in no
\* state is the close handled and the upstream request open.
C8_CloseCancelsUpstream ==
    [][\A r \in 1..MaxReqs :
          /\ reqs'[r].closed => reqs'[r].upstream # "open"
          /\ reqs[r].closed => reqs'[r].chunks = reqs[r].chunks]_vars

C8_Witness ==
    \E r \in 1..MaxReqs :
        /\ reqs[r].closed
        /\ reqs[r].upstream = "destroyed"
        /\ reqs[r].chunks > 0
        /\ ~reqs[r].ended

\* C9: once the client's close is handled, nothing more is written to the
\* response: no status, no body, no end.
C9_NoAnswerAfterClose ==
    [][\A r \in 1..MaxReqs :
          reqs[r].closed => Answer(reqs'[r]) = Answer(reqs[r])]_vars

\* C10: when the 'error' listener of the upstream request runs, it answers
\* 500 with the stream-failed body if nothing was sent yet, and leaves the
\* response as it is if the headers were sent; that body is written by no
\* other step.
C10_ErrorAnsweredOnlyBeforeHeaders ==
    [][\A r \in 1..MaxReqs :
          /\ ( ~reqs[r].errored /\ reqs'[r].errored ) =>
                IF ~reqs[r].headersSent
                THEN Answer(reqs'[r]) =
                       [status |-> 500, body |-> StreamFailedBody,
                        ended |-> TRUE, sent |-> TRUE]
                ELSE Answer(reqs'[r]) = Answer(reqs[r])
          /\ ( reqs'[r].body = StreamFailedBody /\ reqs[r].body # StreamFailedBody )
                => ( ~reqs[r].errored /\ reqs'[r].errored /\ ~reqs[r].headersSent )]_vars

C10_Witness ==
    \E r \in 1..MaxReqs :
        /\ reqs[r].errored
        /\ reqs[r].upstream = "failed"
        /\ reqs[r].chunks > 0
        /\ reqs[r].status = reqs[r].proxyRes.status
        /\ reqs[r].body = NoBody

\* Some step of request r: its handler or one of its event listeners
ReqStep(r) ==
    \/ ProxyHandler(r)
    \/ UpstreamResponse(r)
    \/ UpstreamData(r)
    \/ UpstreamEnd(r)
    \/ UpstreamFail(r)
    \/ ClientClose(r)
    \/ HangUp(r)

\* The upstream failed after a part of the body was forwarded
FailedMidBody(q) == q.upstream = "failed" /\ q.chunks > 0

\* C11: a request whose upstream failed after the headers were sent has its
\* response ended, or a step that acts on the request is still to come.  The
\* 'error' listener leaves the response alone once headers are sent, and
\* pipe ends the response only at the end of the upstream body.
C11_FailedMidBodyIsEnded ==
    \A r \in 1..MaxReqs :
        FailedMidBody(reqs[r]) => ( reqs[r].ended \/ ENABLED ReqStep(r) )

\* The headers of the client response repeat what the upstream sent
Mirrors(h, u) ==
    /\ u.ctype # NoHeader => h.ctype = u.ctype
    /\ u.clen # NoHeader => h.clen = u.clen
    /\ u.crange # NoHeader => h.crange = u.crange

\* C12: once the upstream has answered, and unless an error body replaced
\* the answer, the client response carries the upstream's status, each of
\* Content-Type, Content-Length and Content-Range the upstream sent, with
\* the same value, and the proxy's Accept-Ranges and Cache-Control.
C12_ResponseMirrored ==
    \A r \in 1..MaxReqs :
        ( reqs[r].proxyRes # NoProxyRes /\ reqs[r].body = NoBody ) =>
            /\ reqs[r].status = reqs[r].proxyRes.status
            /\ Mirrors(reqs[r].headers, reqs[r].proxyRes)
            /\ reqs[r].headers.accept = "bytes"
            /\ reqs[r].headers.cache = "no-cache"

\* C13: no step of a /proxy request (its handler, the upstream's response,
\* data, end or failure, the client's close, the hang-up error) adds,
\* removes or changes a registry entry, and the handler run again on the
\* same id finds what it found.
C13_ProxyLeavesRegistry ==
    [][\A r \in 1..MaxReqs :
          /\ reqs'[r] # reqs[r] => urlCache' = urlCache
          /\ Handles(r) =>
                \E rangeHdr \in RangeHeaders :
                    ProxyRun(reqs[r], urlCache', reqs'[r].streamId, rangeHdr) = reqs'[r]]_vars

C13_Witness ==
    \E r \in 1..MaxReqs :
        /\ reqs[r].body = StreamFailedBody
        /\ reqs[r].closed
        /\ ~NotCached(urlCache, reqs[r].streamId)
        /\ \E e \in issued :
              /\ e.key = reqs[r].streamId
              /\ urlCache[CacheIndex(urlCache, e.key)].url = e.url
              /\ urlCache[CacheIndex(urlCache, e.key)].expires = e.expires

\* The state of a request in the specification's state machine.  ResolvingID
\* lies within the handler's run.  "Other" is a request answered by the catch
\* block of lines 280-283, for which the machine has no state.
Phase(q) ==
    IF ~q.handled THEN "Idle"
    ELSE IF q.body = NotFoundBody THEN "NotFound"
    ELSE IF q.errored THEN "UpstreamError"
    ELSE IF q.upstream = "ended" THEN "Complete"
    ELSE IF q.closed THEN "ClientDisconnected"
    ELSE IF q.upstream = "open" /\ q.proxyRes = NoProxyRes THEN "UpstreamRequesting"
    ELSE IF q.upstream = "open" THEN "StreamingBody"
    ELSE "Other"

Terminal == {"NotFound", "UpstreamError", "ClientDisconnected", "Complete"}

Transitions ==
    { <<"Idle", "NotFound">>, <<"Idle", "UpstreamRequesting">>,
      <<"UpstreamRequesting", "UpstreamError">>,
      <<"UpstreamRequesting", "StreamingBody">>,
      <<"StreamingBody", "ClientDisconnected">>,
      <<"StreamingBody", "Complete">> }

\* C14: a request changes state only along the transitions of the state
\* machine, and in a terminal state neither its state, its response nor its
\* upstream request changes any more.
C14_RequestStateMachine ==
    [][\A r \in 1..MaxReqs :
          LET p == Phase(reqs[r])
              n == Phase(reqs'[r])
          IN  /\ p # n => <<p, n>> \in Transitions
              /\ p \in Terminal =>
                    /\ n = p
                    /\ Answer(reqs'[r]) = Answer(reqs[r])
                    /\ reqs'[r].upstream = reqs[r].upstream]_vars

\* C15: an entry that a step leaves in the registry keeps its URL and its
\* expiry, and a registration's expiry is the TTL past the time of the
\* registration: a reading of the clock made while the handler runs.
C15_EntriesNeverChange ==
    [][/\ \A k \in 1..Len(urlCache) :
             LET j == CacheIndex(urlCache', urlCache[k].key)
             IN  j # 0 => ( /\ urlCache'[j].url = urlCache[k].url
                            /\ urlCache'[j].expires = urlCache[k].expires )
       /\ \A n \in issued' \ issued :
             n.expires - TTL \in clock..clock']_vars

\* C16: the upstream request of a /proxy request is opened by the handler's
\* run only, the handler runs once, and after an upstream error or the
\* client's close the request has no open upstream request.
C16_OneUpstreamRequest ==
    [][\A r \in 1..MaxReqs :
          /\ ( reqs'[r].upstream = "open" /\ reqs[r].upstream # "open" ) => Handles(r)
          /\ reqs[r].handled => reqs'[r].handled
          /\ ( reqs'[r].errored \/ reqs'[r].closed ) => reqs'[r].upstream # "open"]_vars

C16_Witness ==
    \E r \in 1..MaxReqs :
        /\ reqs[r].errored
        /\ reqs[r].closed
        /\ reqs[r].upstream = "destroyed"

\* A response has begun: its status line and headers are written
Begun(q) == q.headersSent

\* C17: once a response has begun for a request (the 404, a 500 error body,
\* or the upstream's status and headers sent with the first of the body), no
\* step sets another status, changes the headers or writes an error body,
\* and the response stays begun and, once ended, ended.
C17_OneResponseBegun ==
    [][\A r \in 1..MaxReqs :
          Begun(reqs[r]) =>
              /\ Begun(reqs'[r])
              /\ reqs'[r].status = reqs[r].status
              /\ reqs'[r].headers = reqs[r].headers
              /\ reqs'[r].body = reqs[r].body
              /\ reqs[r].ended => reqs'[r].ended]_vars

C17_Witness ==
    \E r \in 1..MaxReqs :
        /\ Begun(reqs[r])
        /\ reqs[r].chunks > 0
        /\ reqs[r].status = reqs[r].proxyRes.status
        /\ reqs[r].errored
        /\ reqs[r].closed

\* C17 as stated: the upstream's response counts as started when its
\* callback has set the status; from then on, as after a 404 or a 500, no
\* step sets another status or writes an error body.
C17_StatusSetOnce ==
    [][\A r \in 1..MaxReqs :
          ( Begun(reqs[r]) \/ reqs[r].proxyRes # NoProxyRes ) =>
              /\ reqs'[r].status = reqs[r].status
              /\ reqs'[r].body = reqs[r].body]_vars

\* C18: a registration request that answers with an error (400 or 500)
\* leaves the registry as it was; only a request that answers 200 with the
\* id has stored an entry.
C18_ErrorRegistersNothing ==
    [][\A n \in issued' \ issued : ~n.returned => urlCache' = urlCache]_vars

\* C19: every entry of the registry has a non-empty upstream URL.
C19_UrlsNotEmpty ==
    \A k \in 1..Len(urlCache) : urlCache[k].url # ""

====
